---- MODULE Spec2Model ----
(***************************************************************************)
(* Model of the DeepFakeStudio backend (src/backend/main.py): the queue    *)
(* processor run_queue_processor, the stop/status/queue endpoints and the  *)
(* stitch_video concatenation stage (Spec), and of one call of             *)
(* generate_clip of src/backend/comfy_client.py (ClientSpec).              *)
(*                                                                         *)
(* Threads.  run_queue_processor is an `async def` without any await, run  *)
(* as a background task on the event loop: one invocation per enqueue.     *)
(* stop_generation, get_status, get_project and stitch_video are plain     *)
(* `def` endpoints: they run on pool threads and interleave with the       *)
(* processor between its statements.                                       *)
(***************************************************************************)
EXTENDS Integers, Sequences, FiniteSets, TLC

\* ------------------------------------------------------------------ bounds
\* Number of requests that start work (queue_single_clip, queue_all_clips,
\* direct /stitch) in a run.
MaxRequests == 2

\* ------------------------------------------------------- the job profile
None == "None"

\* data["clips"] of the project's job profile, in project order.
ProjectClips == <<"A", "B">>

\* A clip id that is not in the job profile.
UnknownClip == "X"

\* The clip ids queue_single_clip is called with.
SingleClipChoices == {"A", UnknownClip}

\* clip_info["actions"] as stored (not sorted by pass).
ClipActions(c) ==
    CASE c = "A" -> << [pass |-> 2, character |-> "char2"],
                       [pass |-> 1, character |-> "char1"] >>
      [] c = "B" -> << [pass |-> 1, character |-> "char2"] >>
      [] OTHER   -> << >>

\* clip["type"]: B is a NoChar clip that still lists an action.
ClipType(c) == IF c = "B" THEN "NoChar" ELSE "BothChar"

ProjectClipSet == {ProjectClips[n] : n \in 1..Len(ProjectClips)}

Passes == {1, 2}

\* ------------------------------------------------------------ file names
OriginalSource(c) == <<"input", c>>

TempOut(c, p) == <<"DF", c, p>>

ClipFile(c) == <<"clip", c>>

OutPaths == {TempOut(c, p) : c \in ProjectClipSet, p \in Passes}
               \cup {ClipFile(c) : c \in ProjectClipSet}

AllMasks == { <<"A", 1>>, <<"A", 2>>, <<"B", 1>> }

\* The environments the runs start from: which clip inputs, character
\* images and mask files exist, and whether the job profile exists.  Every
\* environment holds a mask file, so OUTPUTS_DIR / video_id exists
\* (get_mask_path creates it) and stitch_video's 404 branch is not taken.
Environments ==
    { [ inputs |-> {"A", "B"}, profile_ok |-> TRUE, masks |-> AllMasks,
        assets |-> { <<"default", "char1">>, <<"custom", "char2">> } ],
      [ inputs |-> {"A"}, profile_ok |-> TRUE,
        masks |-> { <<"A", 1>>, <<"A", 2>> },
        assets |-> { <<"default", "char2">> } ],
      [ inputs |-> {}, profile_ok |-> TRUE, masks |-> { <<"A", 1>> },
        assets |-> {} ],
      [ inputs |-> {"A", "B"}, profile_ok |-> FALSE, masks |-> AllMasks,
        assets |-> { <<"default", "char1">>, <<"default", "char2">> } ] }

Tasks == 1..MaxRequests

\* The direct caller of stitch_video (the /stitch endpoint).
Api == 0

Stitchers == Tasks \cup {Api}

VARIABLES
    inputs,             \* clips whose input video exists under INPUTS_DIR
    assets,             \* character images that exist under ASSETS_DIR
    masks,              \* (clip, pass) pairs with a saved mask file
    profile_ok,         \* the project's job profile exists
    files,              \* contents of the .mp4 files of the output directory
    comfy_out,          \* (clip, pass) prefixes with a file in COMFY_OUTPUT_DIR
    list_file,          \* list.txt on disk
    final_video,        \* <video_id>_final.mp4
    processing_status,  \* the global status dict
    stop_event,         \* threading.Event
    pending,            \* background tasks added and not yet started
    task,               \* one record per invocation of run_queue_processor
    st,                 \* one record per caller of stitch_video
    n_stitch,           \* direct /stitch calls so far
    response,           \* the HTTP response the last step returned, if any
    stitched,           \* the last stitch that completed, and how it compares
                        \* with the one before it
    gc                  \* the locals of a call of comfy_client.generate_clip

vars == << inputs, assets, masks, profile_ok, files, comfy_out,
           list_file, final_video, processing_status, stop_event, pending,
           task, st, n_stitch, response, stitched, gc >>

env == << inputs, assets, masks, profile_ok >>

main_vars == << inputs, assets, masks, profile_ok, files, comfy_out,
                list_file, final_video, processing_status, stop_event,
                pending, task, st, n_stitch, response, stitched >>

\* ---------------------------------------------------------------- helpers
Exists(path) ==
    IF path[1] = "input" THEN path[2] \in inputs ELSE files[path] # "none"

\* get_project: the derived status of a clip.
ClipStatus(c) == IF files[ClipFile(c)] # "none" THEN "done" ELSE "pending"

\* ref_img of an action: the custom image if it exists, else the default one.
RefImg(ch) ==
    IF <<"custom", ch>> \in assets THEN <<"custom", ch>> ELSE <<"default", ch>>

RECURSIVE InsertByPass(_, _)
InsertByPass(a, s) ==
    IF s = << >> THEN << a >>
    ELSE IF a.pass < Head(s).pass THEN << a >> \o s
         ELSE << Head(s) >> \o InsertByPass(a, Tail(s))

\* The actions of a clip in the order the profile lists them.
AsStored(s) == s

\* sorted(clip_info["actions"], key=lambda x: x["pass"]): a stable sort.
RECURSIVE SortedByPass(_)
SortedByPass(s) ==
    IF s = << >> THEN << >>
    ELSE InsertByPass(s[Len(s)], SortedByPass(SubSeq(s, 1, Len(s) - 1)))

IdleStatus ==
    [ is_processing |-> FALSE, current_clip |-> None, current_pass |-> 0,
      total_clips |-> 0, processed_clips |-> 0, queue |-> << >>,
      last_completed |-> None,
      pass_clip |-> None ]   \* the clip whose pass loop wrote current_pass

\* The locals of an invocation of run_queue_processor, and what it has done:
\* log (the passes of the current clip), committed (line 273 ran for the
\* current clip), started (clips and passes started), stop_req and
\* stopped_before (a stop request arrived during / before the unit),
\* stop_at_end (the stop flag as line 279 read it), stitch_calls,
\* clips_begun (the clip ids the clip loop has taken, in that order).
NoTask ==
    [ pc |-> "none", clip_ids |-> << >>, i |-> 0, actions |-> << >>, k |-> 0,
      current_source |-> None, loop_exit |-> "none",
      log |-> << >>, committed |-> FALSE, started |-> 0, stop_req |-> FALSE,
      stopped_before |-> FALSE, stop_at_end |-> FALSE, stitch_calls |-> 0,
      clips_begun |-> << >> ]

\* The locals of a call of stitch_video.  seen and enc record, per clip, the
\* content found at clip_file and what the re-encode left; clean, that no
\* clip was committed and no other call of stitch_video was active during
\* this call; full, that every re-encode of this call left a file.
NoStitch ==
    [ pc |-> "idle", i |-> 0, list |-> << >>,
      seen |-> [c \in ProjectClipSet |-> "none"],
      enc |-> [c \in ProjectClipSet |-> "not_run"],
      clean |-> TRUE, full |-> TRUE ]

\* No stitch has completed since the committed artifacts last changed.
NoStitched ==
    [ valid |-> FALSE, list |-> << >>, final |-> << "none" >>, full |-> FALSE,
      again |-> FALSE, same |-> FALSE, prev_full |-> FALSE ]

NoResponse == [ kind |-> "none" ]

\* The locals of a call of comfy_client.generate_clip and what the call has
\* done.  up is the upload in progress (1 the source video, 2 the character
\* image), retries the retries its session has made; transients and up_end
\* record, per upload, the transient failures met and how the upload ended;
\* attempts counts the attempts of queue_prompt; ws_end is how the event
\* stream ended; waited counts the poll intervals elapsed since the prompt
\* was accepted and polled those elapsed inside wait_for_completion;
\* last_hist is the last answer of the history endpoint.
NoCall ==
    [ pc |-> "idle", missing |-> 0, job_outputs |-> << >>,
      up |-> 1, retries |-> 0,
      transients |-> << 0, 0 >>, up_end |-> << "none", "none" >>,
      posts |-> << 0, 0 >>,      \* upload requests sent, per upload
      attempts |-> 0, submitted |-> FALSE,
      ws_end |-> "none", msgs |-> 0, waited |-> 0, polled |-> 0,
      last_hist |-> [ present |-> FALSE, outputs |-> << >> ],
      outputs |-> << >>,
      result |-> [ kind |-> "none" ] ]

Init ==
    /\ \E e \in Environments :
         /\ inputs = e.inputs
         /\ assets = e.assets
         /\ masks = e.masks
         /\ profile_ok = e.profile_ok
    /\ files = [p \in OutPaths |-> "none"]
    /\ comfy_out = {}
    /\ list_file = << >>
    /\ final_video = << "none" >>
    /\ processing_status = IdleStatus
    /\ stop_event = FALSE
    /\ pending = << >>
    /\ task = [t \in Tasks |-> NoTask]
    /\ st = [s \in Stitchers |-> NoStitch]
    /\ n_stitch = 0
    /\ response = NoResponse
    /\ stitched = NoStitched
    /\ gc = NoCall

\* ------------------------------------------------------- request handlers

NEnqueued == Cardinality({t \in Tasks : task[t].pc # "none"})

\* background_tasks.add_task(run_queue_processor, video_id, clip_ids)
AddTask(clip_ids) ==
    LET t == NEnqueued + 1 IN
    /\ task' = [task EXCEPT ![t] = [NoTask EXCEPT !.pc = "queued",
                                                  !.clip_ids = clip_ids]]
    /\ pending' = Append(pending, t)

\* POST /queue/clip/{video_id}
QueueSingleClip(c) ==
    /\ NEnqueued + n_stitch < MaxRequests
    /\ AddTask(<< c >>)
    /\ response' = NoResponse
    /\ UNCHANGED << env, gc, stitched, files, comfy_out, list_file, final_video,
                    processing_status, stop_event, st, n_stitch >>

\* A validation that finds no mask missing.
NoMissingMasks(cs) == {}

\* The (clip, pass) entries queue_all_clips reports as missing.
MissingMasksOf(cs) ==
    { m \in { <<c, p>> : c \in cs, p \in Passes } :
        /\ \E n \in 1..Len(ClipActions(m[1])) : ClipActions(m[1])[n].pass = m[2]
        /\ ClipType(m[1]) # "NoChar"
        /\ m \notin masks }

\* POST /queue/all/{video_id}: queued only when no mask is missing, else
\* the missing masks are returned.
QueueAllClips ==
    /\ profile_ok
    /\ LET missing_masks == MissingMasksOf(ProjectClipSet) IN
       \/ /\ missing_masks # {}
          /\ response' = [ kind |-> "queue_all", status |-> "error",
                           missing |-> missing_masks ]
          /\ UNCHANGED << task, pending >>
       \/ /\ missing_masks = {}
          /\ NEnqueued + n_stitch < MaxRequests
          /\ AddTask(ProjectClips)
          /\ response' = [ kind |-> "queue_all", status |-> "queued",
                           missing |-> {} ]
    /\ UNCHANGED << env, gc, stitched, files, comfy_out, list_file, final_video,
                    processing_status, stop_event, st, n_stitch >>

Running(t) == task[t].pc \notin {"none", "queued", "done"}

\* POST /stop: stop_event.set().  stop_req and stopped_before record, for
\* each unit, that a stop request arrived while it was being processed or
\* while it was queued.
StopGeneration ==
    /\ stop_event' = TRUE
    /\ task' = [t \in Tasks |->
                  IF Running(t) THEN [task[t] EXCEPT !.stop_req = TRUE]
                  ELSE IF task[t].pc = "queued"
                       THEN [task[t] EXCEPT !.stopped_before = TRUE]
                       ELSE task[t]]
    /\ response' = NoResponse
    /\ UNCHANGED << env, gc, stitched, files, comfy_out, list_file, final_video,
                    processing_status, pending, st, n_stitch >>

\* GET /status: returns the status dict as it is at the time of the read.
GetStatus ==
    /\ response' = [ kind |-> "status",
                     current_clip |-> processing_status.current_clip,
                     current_pass |-> processing_status.current_pass,
                     pass_clip |-> processing_status.pass_clip ]
    /\ UNCHANGED << env, gc, stitched, files, comfy_out, list_file, final_video,
                    processing_status, stop_event, pending, task, st,
                    n_stitch >>

\* ------------------------------------------------- run_queue_processor

\* A scheduler that starts a coroutine while another one is in its body.
LoopAlwaysFree == TRUE

\* The event loop runs a background coroutine only when no other one is in
\* the middle of its body: run_queue_processor never awaits.
LoopFree == \A u \in Tasks : ~Running(u)

CurrentClip(t) == task[t].clip_ids[task[t].i + 1]

CurrentAction(t) == task[t].actions[task[t].k + 1]

\* Lines 150-161: the coroutine starts and publishes the unit in the status.
\* Each request hands its own coroutine to the framework (add_task, lines
\* 397 and 437), which runs it once that request's response has been sent:
\* nothing in the program orders the coroutines of different requests.
StartUnit(t) ==
    /\ \E n \in 1..Len(pending) : pending[n] = t
    /\ LoopFree
    /\ pending' = SelectSeq(pending, LAMBDA u : u # t)
    /\ task' = [task EXCEPT ![t].pc = "clear"]
    /\ processing_status' =
         [processing_status EXCEPT !.is_processing = TRUE,
                                   !.total_clips = Len(task[t].clip_ids),
                                   !.processed_clips = 0,
                                   !.queue = task[t].clip_ids]
    /\ response' = NoResponse
    /\ UNCHANGED << env, gc, stitched, files, comfy_out, list_file, final_video,
                    stop_event, st, n_stitch >>

\* A loader that returns a profile whether or not the file is there.
ProfileAssumed == TRUE

\* get_job_profile_path (lines 106-111) and line 168: the profile is loaded
\* when job_profile_<video_id>.json exists, else FileNotFoundError.
ProfileLoaded == profile_ok

\* Lines 162-172: stop_event.clear(), then the job profile is loaded;
\* FileNotFoundError goes to line 284.
ClearStop(t) ==
    /\ task[t].pc = "clear"
    /\ stop_event' = FALSE
    /\ \/ /\ ProfileLoaded
          /\ task' = [task EXCEPT ![t].pc = "clip", ![t].i = 0]
       \/ /\ ~ProfileLoaded
          /\ task' = [task EXCEPT ![t].pc = "finally", ![t].loop_exit = "error"]
    /\ response' = NoResponse
    /\ UNCHANGED << env, gc, stitched, files, comfy_out, list_file, final_video,
                    processing_status, pending, st, n_stitch >>

\* Lines 174-177: the clip loop ends, or breaks on the stop flag.
ClipLoopEnd(t) ==
    /\ task[t].pc = "clip"
    /\ \/ /\ task[t].i >= Len(task[t].clip_ids)
          /\ task' = [task EXCEPT ![t].pc = "stitch_check",
                                  ![t].loop_exit = "completed"]
       \/ /\ task[t].i < Len(task[t].clip_ids)
          /\ stop_event
          /\ task' = [task EXCEPT ![t].pc = "stitch_check",
                                  ![t].loop_exit = "stopped"]
    /\ response' = NoResponse
    /\ UNCHANGED << env, gc, stitched, files, comfy_out, list_file, final_video,
                    processing_status, stop_event, pending, st, n_stitch >>

\* A skip that ends the unit as an error does.
SkipAborts(t) ==
    [task EXCEPT ![t].pc = "finally", ![t].loop_exit = "error",
                 ![t].started = @ + 1,
                 ![t].clips_begun = Append(@, CurrentClip(t))]

\* Lines 183-185 and 201-203: continue, the clip loop goes to the next id.
SkipClip(t) ==
    [task EXCEPT ![t].i = @ + 1, ![t].started = @ + 1,
                 ![t].log = << >>, ![t].committed = FALSE,
                 ![t].clips_begun = Append(@, CurrentClip(t))]

\* Lines 174-211: a clip starts.  An id missing from the profile, or a clip
\* whose source file is missing, is skipped (continue).
ClipBegin(t) ==
    /\ task[t].pc = "clip"
    /\ task[t].i < Len(task[t].clip_ids)
    /\ ~stop_event
    /\ LET clip_id == CurrentClip(t) IN
       /\ processing_status' =
            [processing_status EXCEPT !.current_clip = clip_id,
                                      !.processed_clips = task[t].i]
       /\ \/ /\ clip_id \notin ProjectClipSet
             /\ task' = SkipClip(t)
          \/ /\ clip_id \in ProjectClipSet
             /\ ~Exists(OriginalSource(clip_id))
             /\ task' = SkipClip(t)
          \/ /\ clip_id \in ProjectClipSet
             /\ Exists(OriginalSource(clip_id))
             /\ task' = [task EXCEPT
                  ![t].pc = "pass",
                  ![t].current_source = OriginalSource(clip_id),
                  ![t].actions = SortedByPass(ClipActions(clip_id)),
                  ![t].k = 0,
                  ![t].started = @ + 1,
                  ![t].log = << >>,
                  ![t].committed = FALSE,
                  ![t].clips_begun = Append(@, clip_id)]
    /\ response' = NoResponse
    /\ UNCHANGED << env, gc, stitched, files, comfy_out, list_file, final_video,
                    stop_event, pending, st, n_stitch >>

\* Lines 213-214: the pass loop ends, or breaks on the stop flag.
PassLoopEnd(t) ==
    /\ task[t].pc = "pass"
    /\ \/ task[t].k >= Len(task[t].actions)
       \/ task[t].k < Len(task[t].actions) /\ stop_event
    /\ task' = [task EXCEPT ![t].pc = "commit"]
    /\ response' = NoResponse
    /\ UNCHANGED << env, gc, stitched, files, comfy_out, list_file, final_video,
                    processing_status, stop_event, pending, st, n_stitch >>

\* Lines 213-239: a pass starts; the mask is loaded if present and the
\* character image is resolved.  A missing image skips to the next action
\* of the clip (continue, line 239).
PassBegin(t) ==
    /\ task[t].pc = "pass"
    /\ task[t].k < Len(task[t].actions)
    /\ ~stop_event
    /\ LET action == CurrentAction(t)
           clip_id == CurrentClip(t)
           entry(o) == [ clip |-> clip_id, pass |-> action.pass,
                         source |-> None, outcome |-> o, artifact |-> None,
                         result |-> "none" ]
       IN
       /\ processing_status' =
            [processing_status EXCEPT !.current_pass = action.pass,
                                      !.pass_clip = clip_id]
       /\ \/ /\ RefImg(action.character) \notin assets
             /\ task' = [task EXCEPT
                  ![t].log = Append(@, entry("missing_image")),
                  ![t].started = @ + 1,
                  ![t].k = @ + 1]
          \/ /\ RefImg(action.character) \in assets
             /\ task' = [task EXCEPT
                  ![t].log = Append(@, entry("running")),
                  ![t].started = @ + 1,
                  ![t].pc = "generate"]
    /\ response' = NoResponse
    /\ UNCHANGED << env, gc, stitched, files, comfy_out, list_file, final_video,
                    stop_event, pending, st, n_stitch >>

SetLast(log, f, v) == [log EXCEPT ![Len(log)] = [@ EXCEPT ![f] = v]]

\* How a call of generate_clip ends: it raises, returns a filename, or
\* returns None (line 257).
ClipResults == {"raised", "filename", "null"}

\* Lines 245-253 and 264-267: comfy_client.generate_clip is called with the
\* current source.  It raises (upload, submission, tracking) or returns, and
\* its return value is not looked at; the compute service may or may not
\* leave a file named after the prefix in COMFY_OUTPUT_DIR (it leaves none
\* in a call that finds no output to return).
GenerateClip(t) ==
    /\ task[t].pc = "generate"
    /\ \E result \in ClipResults, wrote \in BOOLEAN :
       /\ result = "null" => ~wrote
       /\ comfy_out' = IF wrote
                       THEN comfy_out \cup {<<CurrentClip(t), CurrentAction(t).pass>>}
                       ELSE comfy_out
       /\ task' = [task EXCEPT
            ![t].log = SetLast(SetLast(SetLast(@, "source",
                                               task[t].current_source),
                                       "result", result),
                               "outcome", IF result = "raised" THEN "raised"
                                          ELSE "returned"),
            ![t].pc = IF result = "raised" THEN "commit" ELSE "move"]
    /\ response' = NoResponse
    /\ UNCHANGED << env, gc, stitched, files, list_file, final_video, processing_status,
                    stop_event, pending, st, n_stitch >>

\* move_comfy_output (lines 114-134): False when the stop flag is set or no
\* file carries the prefix, else the latest such file is copied to dest.
MoveFinds(prefix) == ~stop_event /\ prefix \in comfy_out

\* The current source left as it was after a pass that succeeded.
NextSourceStale(t, temp_out) == task[t].current_source

\* Line 259: the source of the next pass after a pass that succeeded.
NextSource(t, temp_out) == temp_out

\* Lines 255-262: the output is moved to the project's output directory.
MoveOutput(t) ==
    /\ task[t].pc = "move"
    /\ LET clip_id == CurrentClip(t)
           pass_num == CurrentAction(t).pass
           temp_out == TempOut(clip_id, pass_num)
       IN
       \/ /\ MoveFinds(<<clip_id, pass_num>>)
          /\ files' = [files EXCEPT ![temp_out] = "gen"]
          /\ task' = [task EXCEPT
               ![t].current_source = NextSource(t, temp_out),
               ![t].log = SetLast(SetLast(@, "outcome", "ok"),
                                  "artifact", temp_out),
               ![t].k = @ + 1,
               ![t].pc = "pass"]
       \/ /\ ~MoveFinds(<<clip_id, pass_num>>)
          /\ task' = [task EXCEPT ![t].log = SetLast(@, "outcome", "no_output"),
                                  ![t].pc = "commit"]
          /\ UNCHANGED files
    /\ response' = NoResponse
    /\ UNCHANGED << env, gc, stitched, comfy_out, list_file, final_video,
                    processing_status, stop_event, pending, st, n_stitch >>

\* Line 272: the condition under which the clip's result is committed.
CommitCondition(t) ==
    /\ Exists(task[t].current_source)
    /\ task[t].current_source # OriginalSource(CurrentClip(t))

\* Lines 269-276: the current source is copied to <clip_id>.mp4.  An
\* OSError of shutil.copy (line 273) is not caught inside the clip loop: it
\* goes to the handler of line 284.
Commit(t) ==
    /\ task[t].pc = "commit"
    /\ LET clip_id == CurrentClip(t) IN
       \/ /\ CommitCondition(t)
          /\ files' = [files EXCEPT ![ClipFile(clip_id)] =
                                       files[task[t].current_source]]
          /\ processing_status' =
               [processing_status EXCEPT !.last_completed = clip_id]
          /\ task' = [task EXCEPT ![t].committed = TRUE, ![t].i = @ + 1,
                                  ![t].pc = "clip"]
          /\ stitched' = NoStitched
          /\ st' = [s \in Stitchers |->
                      IF st[s].pc = "idle" THEN st[s]
                      ELSE [st[s] EXCEPT !.clean = FALSE]]
       \/ /\ CommitCondition(t)
          /\ task' = [task EXCEPT ![t].pc = "finally",
                                  ![t].loop_exit = "clip_error"]
          /\ UNCHANGED << files, processing_status, stitched, st >>
       \/ /\ ~CommitCondition(t)
          /\ task' = [task EXCEPT ![t].i = @ + 1, ![t].pc = "clip"]
          /\ UNCHANGED << files, processing_status, stitched, st >>
    /\ response' = NoResponse
    /\ UNCHANGED << env, gc, comfy_out, list_file, final_video, stop_event,
                    pending, n_stitch >>

\* Lines 465-481 of stitch_video: the job profile is loaded and list.txt is
\* opened for writing, which truncates it.
StitchEnter(s) ==
    /\ list_file' = << >>
    /\ st' = [u \in Stitchers |->
                IF u = s
                THEN [NoStitch EXCEPT
                        !.pc = "clip",
                        !.clean = \A v \in Stitchers : st[v].pc = "idle"]
                ELSE IF st[u].pc = "idle" THEN st[u]
                     ELSE [st[u] EXCEPT !.clean = FALSE]]

\* Line 279: the unit stitches unless the stop flag is set after the loop.
StitchAfterLoop == ~stop_event

\* Lines 278-282: auto stitch.
StitchCheck(t) ==
    /\ task[t].pc = "stitch_check"
    /\ \/ /\ StitchAfterLoop
          /\ task' = [task EXCEPT ![t].pc = "stitch",
                                  ![t].stop_at_end = stop_event,
                                  ![t].stitch_calls = @ + 1]
          /\ StitchEnter(t)
       \/ /\ ~StitchAfterLoop
          /\ task' = [task EXCEPT ![t].pc = "finally",
                                  ![t].stop_at_end = stop_event]
          /\ UNCHANGED << st, list_file >>
    /\ response' = NoResponse
    /\ UNCHANGED << env, gc, stitched, files, comfy_out, final_video, processing_status,
                    stop_event, pending, n_stitch >>

\* Lines 284-291: the finally block.  current_pass, total_clips,
\* processed_clips and last_completed are left as they are.
Finally(t) ==
    /\ task[t].pc = "finally"
    /\ processing_status' =
         [processing_status EXCEPT !.is_processing = FALSE,
                                   !.current_clip = None,
                                   !.queue = << >>]
    /\ task' = [task EXCEPT ![t] = [NoTask EXCEPT !.pc = "done"]]
    /\ response' = NoResponse
    /\ UNCHANGED << env, gc, stitched, files, comfy_out, list_file, final_video, stop_event,
                    pending, st, n_stitch >>

\* ------------------------------------------------------------ stitch_video

\* POST /stitch/{video_id}, called directly.  A missing job profile raises
\* FileNotFoundError at line 471.
StitchCall ==
    /\ NEnqueued + n_stitch < MaxRequests
    /\ st[Api].pc = "idle"
    /\ n_stitch' = n_stitch + 1
    /\ \/ /\ profile_ok
          /\ StitchEnter(Api)
          /\ response' = NoResponse
       \/ /\ ~profile_ok
          /\ response' = [ kind |-> "stitch", result |-> "error" ]
          /\ UNCHANGED << st, list_file >>
    /\ UNCHANGED << env, gc, stitched, files, comfy_out, final_video, processing_status,
                    stop_event, pending, task >>

\* What the re-encode of line 511 can leave at clip_file: a file ("reenc":
\* whatever ffmpeg wrote there), or nothing (ffmpeg failed or could not be
\* run; line 518 swallows the exception).
EncodeOutcomes == {"reenc", "none"}

\* A stitch that re-encodes the input whether or not clip_file exists.
NeedsEncodeAlways(c) == TRUE

\* Line 487: the input is looked for when clip_file does not exist.
NeedsEncode(c) == ~Exists(ClipFile(c))

\* An entry written without looking at clip_file.
WritesEntryAlways(content) == TRUE

\* Line 525: the entry is written when clip_file exists.
WritesEntry(content) == content # "none"

\* Lines 482-528: one clip of the project, in project order.
StitchClip(s) ==
    /\ st[s].pc = "clip"
    /\ st[s].i < Len(ProjectClips)
    /\ LET c == ProjectClips[st[s].i + 1]
           clip_file == ClipFile(c)
           step(content, enc) ==
              /\ files' = [files EXCEPT ![clip_file] = content]
              /\ st' = [st EXCEPT
                   ![s].i = @ + 1,
                   ![s].seen[c] = files[clip_file],
                   ![s].enc[c] = enc,
                   ![s].full = @ /\ enc # "none",
                   ![s].list = IF WritesEntry(content)
                               THEN Append(@, clip_file) ELSE @]
       IN
       \/ /\ ~NeedsEncode(c)
          /\ step(files[clip_file], "not_run")
       \/ /\ NeedsEncode(c)
          /\ Exists(OriginalSource(c))
          /\ \E content \in EncodeOutcomes : step(content, content)
       \/ /\ NeedsEncode(c)
          /\ ~Exists(OriginalSource(c))
          /\ step(files[clip_file], "not_run")
    /\ response' = NoResponse
    /\ UNCHANGED << env, gc, stitched, comfy_out, list_file, final_video, processing_status,
                    stop_event, pending, task, n_stitch >>

\* Line 481 (end of the with block): list.txt is closed and its lines are on
\* disk.
StitchClose(s) ==
    /\ st[s].pc = "clip"
    /\ st[s].i >= Len(ProjectClips)
    /\ list_file' = st[s].list
    /\ st' = [st EXCEPT ![s] = [NoStitch EXCEPT !.pc = "concat",
                                                !.list = st[s].list,
                                                !.clean = st[s].clean,
                                                !.full = st[s].full]]
    /\ response' = NoResponse
    /\ UNCHANGED << env, gc, stitched, files, comfy_out, final_video, processing_status,
                    stop_event, pending, task, n_stitch >>

\* stitch_video ends with result r: the direct caller gets the response; in
\* the processor the call returns, or its HTTPException is caught at line
\* 284, and the finally block is next.
StitchLeave(s, r) ==
    /\ st' = [st EXCEPT ![s] = NoStitch]
    /\ IF s = Api
       THEN /\ response' = [ kind |-> "stitch", result |-> r ]
            /\ UNCHANGED task
       ELSE /\ response' = NoResponse
            /\ task' = [task EXCEPT ![s].pc = "finally"]

\* Lines 530-554: ffmpeg concatenates list.txt into <video_id>_final.mp4,
\* overwriting it (-y).  A non-zero return code raises HTTPException(500).
StitchConcat(s) ==
    /\ st[s].pc = "concat"
    /\ \/ /\ final_video' = << "final", list_file >>
          /\ stitched' =
               [ valid |-> st[s].clean, list |-> list_file,
                 final |-> final_video', full |-> st[s].full,
                 again |-> stitched.valid /\ st[s].clean,
                 same |-> /\ list_file = stitched.list
                          /\ final_video' = stitched.final,
                 prev_full |-> stitched.full ]
          /\ StitchLeave(s, "ok")
       \/ /\ final_video' \in {final_video, << "partial" >>}
          /\ stitched' = NoStitched
          /\ StitchLeave(s, "error")
    /\ UNCHANGED << env, gc, files, comfy_out, list_file, processing_status,
                    stop_event, pending, n_stitch >>

\* ------------------------------------------- comfy_client.generate_clip

\* Bounds of the client runs: the maximum wait of wait_for_completion (the
\* 1500 s of line 167) in poll intervals, and the messages other than the
\* finish signal that the event stream delivers to track_progress.
MaxWait == 2

MaxMessages == 3

\* Retry(total=5) of create_retry_session and range(3) of queue_prompt.
RetryTotal == 5

QueueAttempts == 3

\* output_filename (the prefix) and the file names the service reports, as
\* sequences of characters.
OutputFilename == << "D", "F" >>

Match1 == << "D", "F", "_", "1" >>

Match2 == << "D", "F", "_", "2" >>

Other == << "D", "X", "_", "1" >>

Short == << "D" >>

\* The node id of the fallback of line 253.
DefaultSlot == "114"

\* The outputs of the finished job as the history endpoint lists them: the
\* nodes in the order of the JSON object, each with the categories it has.
OutputShapes ==
    { << [ id |-> "114", cats |-> ("videos" :> << Match1 >>) ] >>,
      << [ id |-> "9",   cats |-> ("videos" :> << Other >>
                                   @@ "gifs" :> << Short, Match2 >>) ],
         [ id |-> "114", cats |-> ("videos" :> << Match1 >>) ] >>,
      << [ id |-> "114", cats |-> ("videos" :> << Other >>) ] >>,
      << [ id |-> "114", cats |-> ("gifs" :> << Other >>) ] >>,
      << [ id |-> "114", cats |-> ("videos" :> << >>) ] >>,
      << [ id |-> "9",   cats |-> ("images" :> << Match1 >>) ] >>,
      << [ id |-> "9",   cats |-> ("videos" :> << Other >>) ] >> }

\* The calls start with the two local files present, or one of them missing.
ClientInputs ==
    { [ NoCall EXCEPT !.pc = "upload", !.missing = m, !.job_outputs = o ] :
        m \in {0, 1, 2}, o \in OutputShapes }

\* str.startswith
StartsWith(f, prefix) ==
    /\ Len(f) >= Len(prefix)
    /\ SubSeq(f, 1, Len(prefix)) = prefix

NoFile == << >>

\* The first item of a category whose filename starts with the prefix.
RECURSIVE FirstWithPrefix(_, _)
FirstWithPrefix(items, prefix) ==
    IF items = << >> THEN NoFile
    ELSE IF StartsWith(Head(items), prefix) THEN Head(items)
         ELSE FirstWithPrefix(Tail(items), prefix)

Category(node, cat) ==
    IF cat \in DOMAIN node.cats THEN node.cats[cat] ELSE << >>

\* Lines 242-251: the videos of a node, then its gifs.
NodeMatch(node, prefix) ==
    LET v == FirstWithPrefix(Category(node, "videos"), prefix) IN
    IF v # NoFile THEN v
    ELSE FirstWithPrefix(Category(node, "gifs"), prefix)

\* Lines 241-251: the nodes in order.
RECURSIVE SearchOutputs(_, _)
SearchOutputs(outputs, prefix) ==
    IF outputs = << >> THEN NoFile
    ELSE LET m == NodeMatch(Head(outputs), prefix) IN
         IF m # NoFile THEN m
         ELSE SearchOutputs(Tail(outputs), prefix)

Slot(outputs, id) == { n \in 1..Len(outputs) : outputs[n].id = id }

\* Lines 237-257: what generate_clip returns for the outputs of the job.
Retrieval(outputs, prefix) ==
    LET m == SearchOutputs(outputs, prefix)
        slot == Slot(outputs, DefaultSlot)
    IN
    IF m # NoFile THEN [ kind |-> "filename", name |-> m ]
    ELSE IF \E n \in slot : "videos" \in DOMAIN outputs[n].cats
         THEN LET n == CHOOSE k \in slot : "videos" \in DOMAIN outputs[k].cats
              IN IF outputs[n].cats["videos"] = << >>
                 THEN [ kind |-> "raised", error |-> "IndexError" ]
                 ELSE [ kind |-> "filename",
                        name |-> outputs[n].cats["videos"][1] ]
         ELSE [ kind |-> "null" ]

Raise(e) == [ kind |-> "raised", error |-> e ]

\* A session that never retries.
RetryNever(total, retries) == FALSE

\* urllib3's Retry(total): a failed attempt is retried while fewer than
\* total retries have been made.
RetryLeft(total, retries) == retries < total

\* An upload that does not look for the local file.
LocalFileAssumed(u) == TRUE

\* Line 79: os.path.exists(file_path) of upload u (1 the source video, 2
\* the character image).
LocalFileFound(u) == gc.missing # u

\* upload_file (lines 76-117) for the upload in progress, one HTTP attempt
\* at a time, and lines 193-199 of generate_clip.  The attempt succeeds,
\* fails with a transient error (connection error, reset, 5xx of the
\* status_forcelist) or fails otherwise (another status, an unreadable
\* body).  upload_file returns None when the local file is missing, when
\* the retries are used up and on any other failure; generate_clip then
\* raises.
UploadFile ==
    /\ gc.pc = "upload"
    /\ LET u == gc.up
           fail(how, n) ==
              gc' = [gc EXCEPT !.pc = "done",
                               !.up_end[u] = how,
                               !.transients[u] = n,
                               !.posts[u] = IF how = "missing" THEN @ ELSE @ + 1,
                               !.result = Raise("upload")]
           pass(n) ==
              gc' = [gc EXCEPT !.up_end[u] = "ok",
                               !.transients[u] = n,
                               !.posts[u] = @ + 1,
                               !.up = IF u = 1 THEN 2 ELSE u,
                               !.retries = 0,
                               !.pc = IF u = 1 THEN "upload" ELSE "queue"]
       IN
       \/ /\ ~LocalFileFound(u)
          /\ fail("missing", 0)
       \/ /\ LocalFileFound(u)
          /\ \/ pass(gc.transients[u])
             \/ fail("fatal", gc.transients[u])
             \/ /\ RetryLeft(RetryTotal, gc.retries)
                /\ gc' = [gc EXCEPT !.retries = @ + 1,
                                    !.posts[u] = @ + 1,
                                    !.transients[u] = @ + 1]
             \/ /\ ~RetryLeft(RetryTotal, gc.retries)
                /\ fail("exhausted", gc.transients[u] + 1)
    /\ UNCHANGED main_vars

\* A submission that is given up at its first failure.
AttemptsNone(made) == FALSE

\* Line 63: for attempt in range(3), another attempt follows a failed one
\* while fewer than 3 have been made.
AttemptsLeft(made) == made < QueueAttempts

\* queue_prompt (lines 52-74) one attempt at a time, and lines 228-229.
QueuePrompt ==
    /\ gc.pc = "queue"
    /\ \/ gc' = [gc EXCEPT !.attempts = @ + 1, !.submitted = TRUE,
                           !.pc = "connect"]
       \/ /\ AttemptsLeft(gc.attempts + 1)
          /\ gc' = [gc EXCEPT !.attempts = @ + 1]
       \/ /\ ~AttemptsLeft(gc.attempts + 1)
          /\ gc' = [gc EXCEPT !.attempts = @ + 1, !.pc = "done",
                              !.result = Raise("submission")]
    /\ UNCHANGED main_vars

\* connect_websocket (lines 119-130) and lines 231-232: None when the
\* connection fails.
ConnectWebsocket ==
    /\ gc.pc = "connect"
    /\ \/ gc' = [gc EXCEPT !.pc = "track"]
       \/ gc' = [gc EXCEPT !.pc = "wait", !.ws_end = "not_connected"]
    /\ UNCHANGED main_vars

\* track_progress (lines 132-154) one recv at a time, then ws.close(): the
\* finish signal of this prompt, another message, or an exception (timeout,
\* closed channel, malformed message).
TrackProgress ==
    /\ gc.pc = "track"
    /\ \/ gc' = [gc EXCEPT !.pc = "wait", !.ws_end = "finished"]
       \/ gc' = [gc EXCEPT !.pc = "wait", !.ws_end = "error"]
       \/ /\ gc.msgs < MaxMessages
          /\ gc' = [gc EXCEPT !.msgs = @ + 1, !.waited = @ + 1]
    /\ UNCHANGED main_vars

\* A job that counts as complete as soon as its id is in the history.
HistoryListed(h) == h.present

\* Lines 172-174: the id is in the history with a non-empty output listing.
HistoryComplete(h) == h.present /\ h.outputs # << >>

\* wait_for_completion (lines 162-181), one iteration at a time: the
\* deadline, then a poll of the history (which may raise), then the sleep.
WaitForCompletion ==
    /\ gc.pc = "wait"
    /\ \/ /\ gc.polled > MaxWait
          /\ gc' = [gc EXCEPT !.pc = "done", !.result = Raise("timeout")]
       \/ /\ gc.polled <= MaxWait
          /\ \/ gc' = [gc EXCEPT !.polled = @ + 1, !.waited = @ + 1]
             \/ \E h \in { [ present |-> FALSE, outputs |-> << >> ],
                           [ present |-> TRUE, outputs |-> << >> ],
                           [ present |-> TRUE, outputs |-> gc.job_outputs ] } :
                  IF HistoryComplete(h)
                  THEN gc' = [gc EXCEPT !.last_hist = h,
                                        !.outputs = h.outputs,
                                        !.pc = "retrieve"]
                  ELSE gc' = [gc EXCEPT !.last_hist = h,
                                        !.polled = @ + 1, !.waited = @ + 1]
    /\ UNCHANGED main_vars

\* Lines 237-257: the outputs are searched for the prefix.
Retrieve ==
    /\ gc.pc = "retrieve"
    /\ gc' = [gc EXCEPT !.pc = "done",
                        !.result = Retrieval(gc.outputs, OutputFilename)]
    /\ UNCHANGED main_vars

ClientInit ==
    /\ gc \in ClientInputs
    /\ inputs = {}
    /\ assets = {}
    /\ masks = {}
    /\ profile_ok = FALSE
    /\ files = [p \in OutPaths |-> "none"]
    /\ comfy_out = {}
    /\ list_file = << >>
    /\ final_video = << "none" >>
    /\ processing_status = IdleStatus
    /\ stop_event = FALSE
    /\ pending = << >>
    /\ task = [t \in Tasks |-> NoTask]
    /\ st = [s \in Stitchers |-> NoStitch]
    /\ n_stitch = 0
    /\ response = NoResponse
    /\ stitched = NoStitched

ClientNext ==
    \/ UploadFile
    \/ QueuePrompt
    \/ ConnectWebsocket
    \/ TrackProgress
    \/ WaitForCompletion
    \/ Retrieve

ClientSpec == ClientInit /\ [][ClientNext]_vars

\* -------------------------------------------------------------------- spec

Next ==
    \/ \E c \in SingleClipChoices : QueueSingleClip(c)
    \/ QueueAllClips
    \/ StopGeneration
    \/ GetStatus
    \/ StitchCall
    \/ \E t \in Tasks :
         \/ StartUnit(t)
         \/ ClearStop(t)
         \/ ClipLoopEnd(t)
         \/ ClipBegin(t)
         \/ PassLoopEnd(t)
         \/ PassBegin(t)
         \/ GenerateClip(t)
         \/ MoveOutput(t)
         \/ Commit(t)
         \/ StitchCheck(t)
         \/ Finally(t)
    \/ \E s \in Stitchers :
         \/ StitchClip(s)
         \/ StitchClose(s)
         \/ StitchConcat(s)

Spec == Init /\ [][Next]_vars

\* ------------------------------------------------------------------ claims

Failed == {"missing_image", "raised", "no_output"}

\* C1: the source given to the generation client for pass 1 is the clip's
\* original input, and the source given to the pass after a pass that
\* succeeded is the artifact path that pass was moved to.
SourceChaining ==
    \A t \in Tasks :
      LET log == task[t].log IN
      /\ \A j \in 1..Len(log) :
           (log[j].pass = 1 /\ log[j].source # None)
              => log[j].source = OriginalSource(log[j].clip)
      /\ \A j \in 1..(Len(log) - 1) :
           (log[j].outcome = "ok" /\ log[j + 1].source # None)
              => /\ log[j].artifact = TempOut(log[j].clip, log[j].pass)
                 /\ log[j + 1].source = log[j].artifact

\* A second pass has been given its source after a first pass succeeded.
SourceChainingWitness ==
    \E t \in Tasks :
      /\ Len(task[t].log) = 2
      /\ task[t].log[1].outcome = "ok"
      /\ task[t].log[2].source # None

\* C2: a clip whose every pass failed is never reported "done" by
\* get_project and is never last_completed.  The clip's pass loop is over,
\* every pass it started failed and no pass of it ever left an artifact.
AllFailedNeverDone ==
    \A t \in Tasks :
      LET log == task[t].log IN
      ( /\ task[t].pc \in {"commit", "clip", "stitch_check", "stitch", "finally"}
        /\ log # << >>
        /\ \A j \in 1..Len(log) : log[j].outcome \in Failed
        /\ \A p \in Passes : files[TempOut(log[1].clip, p)] = "none" )
      => /\ ClipStatus(log[1].clip) # "done"
         /\ processing_status.last_completed # log[1].clip

\* C3: after a pass of a clip has failed, no later pass of that clip starts.
NoPassAfterFailure ==
    \A t \in Tasks :
      \A j \in 1..(Len(task[t].log) - 1) : task[t].log[j].outcome \notin Failed

\* C4: a clip in which some pass failed is not committed.
FailedClipNotCommitted ==
    \A t \in Tasks :
      (\E j \in 1..Len(task[t].log) : task[t].log[j].outcome \in Failed)
         => ~task[t].committed

\* C5: once stop() has been called while a unit is being processed, no
\* further clip and no further pass of that unit starts.
NoStartAfterStop ==
    [][ \A t \in Tasks :
          task[t].stop_req => task'[t].started <= task[t].started ]_vars

\* C6: no clip of a unit that was queued when stop() was called is ever
\* processed.
StoppedUnitsDiscarded ==
    \A t \in Tasks : task[t].stopped_before => task[t].started = 0

\* C7: at most one unit is in processing at any time.
OneUnitAtATime == Cardinality({t \in Tasks : Running(t)}) <= 1

\* A unit is processing a clip while another unit waits.
OneUnitAtATimeWitness ==
    \E t \in Tasks : Running(t) /\ task[t].started > 0 /\ pending # << >>

\* C8: a status read never returns a current_pass written for another clip
\* than the current_clip it returns.
StatusNeverTorn ==
    response.kind = "status" =>
       ( (response.current_clip # None /\ response.pass_clip # None)
            => response.pass_clip = response.current_clip )

\* C9: a unit whose job profile was loaded and that has come to its end
\* has invoked stitch_video exactly once, after the clip loop, when the stop
\* flag is clear at that point, and not at all when it is set; the flag is
\* set whenever the loop was left on it, and clear when no stop was
\* requested during the unit.
StitchOncePerUnit ==
    \A t \in Tasks :
      /\ task[t].stitch_calls <= 1
      /\ task[t].stitch_calls = 1
            => /\ task[t].loop_exit = "completed"
               /\ task[t].pc \in {"stitch", "finally"}
      /\ (task[t].pc = "finally" /\ task[t].loop_exit # "error")
            => /\ task[t].stitch_calls = IF task[t].stop_at_end THEN 0 ELSE 1
               /\ task[t].loop_exit = "stopped" => task[t].stop_at_end
               /\ ~task[t].stop_req => ~task[t].stop_at_end

\* The clips stitch has gone through, in project order.
Processed(s) == { n \in 1..Len(ProjectClips) : n <= st[s].i }

InPlaylist(s, c) == \E m \in 1..Len(st[s].list) : st[s].list[m] = ClipFile(c)

\* The playlist lists clips in project order, at most once each.
PlaylistOrdered(s) ==
    \A m1, m2 \in 1..Len(st[s].list) :
      m1 < m2 =>
        \E n1, n2 \in Processed(s) :
          /\ n1 < n2
          /\ st[s].list[m1] = ClipFile(ProjectClips[n1])
          /\ st[s].list[m2] = ClipFile(ProjectClips[n2])

FinalKeptOnFailure ==
    [][ (final_video[1] = "final" /\ final_video' # final_video)
           => final_video'[1] = "final" ]_vars

\* C13: an upload ends in failure for transient errors only when the attempt
\* and every one of its RetryTotal retries have failed, the call then raises
\* the upload error and no prompt is submitted; an upload that succeeds
\* within the budget lets the call go on, and a prompt is only submitted
\* after both uploads have succeeded.
UploadRetried ==
    /\ \A u \in {1, 2} :
         /\ gc.up_end[u] = "exhausted"
               => /\ gc.transients[u] = RetryTotal + 1
                  /\ gc.result = Raise("upload")
                  /\ gc.attempts = 0
         /\ gc.up_end[u] = "ok"
               => /\ gc.transients[u] <= RetryTotal
                  /\ gc.result # Raise("upload") \/ (u = 1 /\ gc.up_end[2] # "ok")
    /\ gc.result = Raise("upload")
          => /\ \E u \in {1, 2} : gc.up_end[u] \in {"exhausted", "fatal", "missing"}
             /\ gc.attempts = 0
    /\ gc.attempts > 0 => (gc.up_end[1] = "ok" /\ gc.up_end[2] = "ok")

\* The image upload failed on attempts 1 to 4 and succeeded on attempt 5, and
\* the prompt has been submitted.
UploadRetriedWitness ==
    /\ gc.up_end[2] = "ok"
    /\ gc.transients[2] = 4
    /\ gc.submitted

\* C14: however the event stream ended, the call polls the history and goes
\* on to its outputs only after a poll has shown the job's id with a
\* non-empty output listing; the only errors raised after the submission are
\* the polling timeout and those of the retrieval, never one of the event
\* stream.
PollingDecides ==
    /\ (gc.pc = "retrieve" \/ gc.result.kind \in {"filename", "null"})
          => /\ gc.last_hist.present
             /\ gc.last_hist.outputs # << >>
             /\ gc.outputs = gc.last_hist.outputs
             /\ gc.ws_end # "none"
    /\ (gc.submitted /\ gc.result.kind = "raised")
          => \/ gc.result.error = "timeout" /\ gc.polled > MaxWait
             \/ gc.pc = "done" /\ gc.last_hist.outputs # << >>
    /\ (gc.pc = "wait" /\ gc.polled = 0) => gc.result.kind = "none"

\* The event stream failed (no connection, or an error while receiving), and
\* the call has returned the file the history listed.
PollingDecidesWitness ==
    /\ gc.ws_end \in {"not_connected", "error"}
    /\ gc.result.kind = "filename"

\* C15: after the prompt has been accepted the call waits at most the
\* maximum wait (and the poll interval in which it expires) before it has
\* the job's outputs or raises the timeout.
WaitBounded == gc.waited <= MaxWait + 1

\* The entries of a node in every category it has, and of all the nodes.
NodeEntries(node) ==
    Category(node, "videos") \o Category(node, "gifs")
        \o Category(node, "images")

RECURSIVE AllEntries(_)
AllEntries(outputs) ==
    IF outputs = << >> THEN << >>
    ELSE NodeEntries(Head(outputs)) \o AllEntries(Tail(outputs))

SlotEntries(outputs) ==
    { f \in { AllEntries(outputs)[k] : k \in 1..Len(AllEntries(outputs)) } :
        \E n \in Slot(outputs, DefaultSlot) :
          \E k \in 1..Len(NodeEntries(outputs[n])) :
            NodeEntries(outputs[n])[k] = f }

Retrieved == gc.pc = "done" /\ gc.last_hist.outputs # << >>

\* C16: once upload, submission and tracking have succeeded, the call
\* returns the filename of the first entry, over every category, that starts
\* with the prefix; when there is none and the default slot is present with
\* an entry, it returns an entry of that slot.
RetrievalAsClaimed ==
    Retrieved =>
      LET first == FirstWithPrefix(AllEntries(gc.outputs), OutputFilename) IN
      /\ first # NoFile
            => gc.result = [ kind |-> "filename", name |-> first ]
      /\ (first = NoFile /\ SlotEntries(gc.outputs) # {})
            => /\ gc.result.kind = "filename"
               /\ gc.result.name \in SlotEntries(gc.outputs)

\* C17: a pass whose call of generate_clip found no output to return (no
\* entry with the prefix, no default slot) is treated as failed.
NoMatchFailsPass ==
    \A t \in Tasks :
      \A j \in 1..Len(task[t].log) :
        task[t].log[j].result = "null" => task[t].log[j].outcome # "ok"

\* C18: an exception raised while a clip of a unit is processed does not end
\* the unit while clips of it remain.
ClipErrorContinues ==
    \A t \in Tasks :
      (task[t].pc = "finally" /\ task[t].loop_exit = "clip_error")
         => task[t].i + 1 >= Len(task[t].clip_ids)

\* C19: while no unit is being processed the status is at its idle values:
\* not processing, no current clip, no current pass, empty queue.
StatusIdleAfterUnit ==
    (\A t \in Tasks : ~Running(t))
       => /\ processing_status.is_processing = FALSE
          /\ processing_status.current_clip = None
          /\ processing_status.current_pass = 0
          /\ processing_status.queue = << >>

\* The masks queue_all_clips must find: one per action of every clip whose
\* type is not NoChar.
RequiredMasks ==
    { m \in ProjectClipSet \X Passes :
        /\ ClipType(m[1]) # "NoChar"
        /\ \E n \in 1..Len(ClipActions(m[1])) :
             ClipActions(m[1])[n].pass = m[2] }

\* C20: queue_all_clips enqueues the unit of all clips when every required
\* mask exists, and otherwise returns an error that lists the missing
\* (clip, pass) pairs and enqueues nothing.
QueueAllValidated ==
    [][ response'.kind = "queue_all" =>
          IF RequiredMasks \subseteq masks
          THEN /\ response'.status = "queued"
               /\ Len(pending') = Len(pending) + 1
               /\ task'[pending'[Len(pending')]].clip_ids = ProjectClips
          ELSE /\ response'.status = "error"
               /\ response'.missing = RequiredMasks \ masks
               /\ pending' = pending
               /\ task' = task ]_vars

\* queue_all_clips has refused a project in which a mask of A and the mask
\* of the NoChar clip B are missing, and has listed the mask of A only.
QueueAllValidatedWitness ==
    /\ response.kind = "queue_all"
    /\ response.status = "error"
    /\ response.missing = { <<"A", 2>> }
    /\ <<"B", 1>> \notin masks

\* C21: a pass whose generation succeeded (generate_clip returned a filename
\* and the compute service's file is in its output folder) is not turned
\* into a failed pass.
StopKeepsPassResult ==
    \A t \in Tasks :
      \A j \in 1..Len(task[t].log) :
        ( /\ task[t].log[j].result = "filename"
          /\ << task[t].log[j].clip, task[t].log[j].pass >> \in comfy_out )
        => task[t].log[j].outcome # "no_output"

\* C22: a clip whose pass loop was left on the stop flag with passes still
\* to run is not committed and is not last_completed.
StoppedClipNotCommitted ==
    \A t \in Tasks :
      LET log == task[t].log IN
      ( /\ task[t].pc = "clip"
        /\ log # << >>
        /\ task[t].k < Len(task[t].actions)
        /\ log[Len(log)].outcome \in {"ok", "missing_image"} )
      => /\ ~task[t].committed
         /\ processing_status.last_completed # log[1].clip

\* C23: an artifact is fed forward to the next pass, or committed as the
\* clip's result, only when generate_clip returned the filename of an output
\* of that pass's own request.
ArtifactIsReported ==
    \A t \in Tasks :
      LET log == task[t].log IN
      \A j \in 1..Len(log) :
        ( /\ log[j].outcome = "ok"
          /\ \/ task[t].committed
             \/ /\ j < Len(log)
                /\ log[j + 1].outcome \notin {"running", "missing_image"}
                /\ log[j + 1].source = log[j].artifact )
        => log[j].result = "filename"

\* C24: the passes of a clip run one at a time in strictly ascending pass
\* order, whatever the order of the clip's pass list, and the clips of a
\* unit are taken one at a time in the order of the unit's clip id list.
AscendingOrder ==
    \A t \in Tasks :
      LET log == task[t].log
          begun == task[t].clips_begun
      IN
      /\ \A j \in 1..Len(log) : \A m \in 1..Len(log) :
            j < m => /\ log[j].pass < log[m].pass
                     /\ log[j].outcome \in {"ok", "missing_image"}
      /\ Len(begun) <= Len(task[t].clip_ids)
      /\ begun = SubSeq(task[t].clip_ids, 1, Len(begun))
      /\ Len(begun) \in {task[t].i, task[t].i + 1}
      /\ \A j \in 1..Len(log) : log[j].clip = begun[Len(begun)]

\* C24 witness: clip A, whose pass list is stored as pass 2 then pass 1, has
\* run pass 1 and then pass 2 in a unit of two clips.
AscendingOrderWitness ==
    \E t \in Tasks :
      /\ Len(task[t].clip_ids) = 2
      /\ Len(task[t].log) = 2
      /\ ClipActions(task[t].log[1].clip)[1].pass = 2
      /\ task[t].log[1].pass = 1
      /\ task[t].log[1].outcome = "ok"
      /\ task[t].log[2].pass = 2
      /\ task[t].log[2].outcome = "ok"

\* C25: units start in the order in which they were enqueued: a unit is
\* not started while a unit enqueued before it is still waiting.
UnitsFIFO ==
    \A t \in Tasks : \A u \in Tasks :
      (t < u /\ task[t].pc = "queued") => task[u].pc \in {"none", "queued"}

ProfileErrorAbortsUnit ==
    /\ \A t \in Tasks :
         task[t].loop_exit = "error"
         => /\ task[t].pc = "finally"
            /\ task[t].clips_begun = << >>
            /\ task[t].started = 0
            /\ ~task[t].committed
            /\ task[t].stitch_calls = 0
    /\ ~profile_ok
         => /\ \A t \in Tasks :
                 /\ task[t].pc \in {"none", "queued", "clear", "finally", "done"}
                 /\ task[t].pc = "finally" => task[t].loop_exit = "error"
                 /\ st[t].pc = "idle"
            /\ \A p \in OutPaths : files[p] = "none"
            /\ processing_status.last_completed = None

\* C27 witness: after a unit ended on the profile error, a later unit has
\* been started and is ending the same way.
ProfileErrorAbortsUnitWitness ==
    /\ ~profile_ok
    /\ \E t \in Tasks : \E u \in Tasks :
         /\ task[t].pc = "done"
         /\ task[u].pc = "finally"
         /\ task[u].loop_exit = "error"

\* C28: an upload whose local file is missing ends at once with no request
\* sent and no retry, and a failed upload (source video or character image)
\* ends the call with the upload error before any submission attempt.
MissingFileFailsFast ==
    /\ \A u \in {1, 2} :
         /\ gc.missing = u
              => /\ gc.up_end[u] \in {"none", "missing"}
                 /\ gc.up <= u
                 /\ gc.pc \in {"upload", "done"}
         /\ gc.up_end[u] = "missing"
              => /\ gc.posts[u] = 0
                 /\ gc.transients[u] = 0
                 /\ gc.retries = 0
         /\ gc.up_end[u] \in {"missing", "fatal", "exhausted"}
              => /\ gc.pc = "done"
                 /\ gc.result = Raise("upload")
                 /\ gc.attempts = 0
                 /\ ~gc.submitted
                 /\ \A v \in {1, 2} : v > u => gc.posts[v] = 0
    /\ gc.attempts > 0 => (gc.up_end[1] = "ok" /\ gc.up_end[2] = "ok")

\* C28 witness: the character image is missing; the source video was
\* uploaded and the call ended on the second upload.
MissingFileFailsFastWitness ==
    /\ gc.missing = 2
    /\ gc.up_end = << "ok", "missing" >>
    /\ gc.posts[1] > 0
    /\ gc.pc = "done"

\* C29: at most QueueAttempts submission attempts are made; the call ends
\* with the submission error only after that many failed, and then no
\* websocket is opened, no history is polled and nothing is retrieved.
SubmissionBounded ==
    /\ gc.attempts <= QueueAttempts
    /\ (gc.result.kind = "raised" /\ gc.result = Raise("submission"))
         => /\ gc.attempts = QueueAttempts
            /\ ~gc.submitted
            /\ gc.pc = "done"
            /\ gc.ws_end = "none"
            /\ gc.msgs = 0
            /\ gc.polled = 0
            /\ gc.waited = 0
            /\ ~gc.last_hist.present
            /\ gc.outputs = << >>
    /\ gc.pc \in {"connect", "track", "wait", "retrieve"} => gc.submitted
    /\ (gc.pc = "queue" /\ gc.attempts > 0) => ~gc.submitted

\* C29 witness: the call has ended with the submission error.
SubmissionBoundedWitness ==
    /\ gc.result.kind = "raised"
    /\ gc.result = Raise("submission")
    /\ gc.attempts = QueueAttempts

\* C30: a stitch concatenates exactly the playlist it built itself: when it
\* runs the concatenation, list.txt holds the entries this stitch wrote.
StitchOwnPlaylist ==
    \A s \in Stitchers :
      st[s].pc = "concat" => list_file = st[s].list

====
